---- MODULE Spec2Model ----
(***************************************************************************)
(* Model of the streaming research pipeline of src/main.py:                *)
(* research_stream.event_generator, an async generator that plans a query, *)
(* researches every sub-question in plan order, aggregates the links and   *)
(* synthesizes a final answer, yielding one SSE event at a time.           *)
(*                                                                         *)
(* One action is one segment of the generator between two suspension       *)
(* points (a yield, or the await of a collaborator call dispatched with    *)
(* asyncio.to_thread).  The collaborators (planner.plan,                   *)
(* searcher.get_sources, searcher.research, the synthesis LLM call) are    *)
(* external: each call either returns a value drawn from a small set or    *)
(* raises.                                                                 *)
(*                                                                         *)
(* The outermost handler of event_generator (main.py 321-322) is not an    *)
(* action: every statement that can raise sits inside one of the inner     *)
(* try blocks, and the remaining statements only format strings and lists  *)
(* of strings.                                                             *)
(***************************************************************************)
EXTENDS Integers, Sequences, FiniteSets, TLC

\* ---------------------------------------------------------------- bounds
MaxN == 2
MaxLinks == 1

\* ------------------------------------------------------- input alphabets
Queries == {"qa", "qb"}
Questions == {"s1", "s2"}
Urls == {"u1", "u2"}
Answers == {"a1"}
Finals == {"f1", ""}
Errors == {"boom"}

\* the frame of one run of event_generator, and the calls it has dispatched
VARIABLES pc, query, plan, idx, links, result, sub_results, all_links,
          events, calls

\* the HTTP request that started the run, and whether its client has gone
VARIABLES request, disconnected

\* one call of a function wrapped by retry_with_backoff: the loop variable,
\* the next delay, the delays slept so far, what every invocation of the
\* wrapped function was given and did, and the outcome of the call
VARIABLES attempt, delay, slept, tries, call_outcome

\* the arguments of the retry_with_backoff decorator of the call under way,
\* and the state of a wrapped call made from inside the wrapped function
VARIABLES deco, inner

\* the frame of a second request whose generator is suspended while this
\* one runs
VARIABLES other

\* the state that no segment of the generator writes
outside == <<request, disconnected, attempt, delay, slept, tries,
             call_outcome, other, deco, inner>>

vars == <<pc, query, plan, idx, links, result, sub_results, all_links,
          events, calls, request, disconnected,
          attempt, delay, slept, tries, call_outcome, other, deco, inner>>

\* ------------------------------------------------------- pure helpers
SeqsUpTo(S, n) == UNION {[1..k -> S] : k \in 0..n}

Range(s) == {s[i] : i \in DOMAIN s}

\* list(set(xs)): the distinct elements of xs, in an unspecified order
ListOfSet(xs) ==
    {s \in [1..Cardinality(Range(xs)) -> Range(xs)] : Range(s) = Range(xs)}

\* len(set(xs))
LenOfSet(xs) == Cardinality(Range(xs))

\* send_event(event_type, data): {'type': event_type, **data}
send_event(event_type, data) == [type |-> event_type] @@ data

\* f"Error: {e}"
ErrorAnswer(e) == [kind |-> "Error", text |-> e]

\* the answer text returned by searcher.research
TextAnswer(a) == [kind |-> "text", text |-> a]

\* the dict appended when a sub-question succeeded
SuccessResult(sub_q, res, lks) ==
    [question |-> sub_q, answer |-> res, sources |-> lks]

\* the dict appended when a sub-question failed
ErrorResult(i, sub_q, e) ==
    [index |-> i, question |-> sub_q, answer |-> ErrorAnswer(e),
     sources |-> <<>>]

\* "\n\n".join(f"Q: {r['question']}\nA: {r['answer']}" for r in sub_results)
SynthesisContext(rs) ==
    [i \in DOMAIN rs |-> [q |-> rs[i].question, a |-> rs[i].answer]]

\* a collaborator call that has been dispatched and not yet returned
NewCall(op, i, arg) ==
    [op |-> op, idx |-> i, arg |-> arg, at |-> Len(events),
     result |-> "pending"]

\* the outcome of the call in flight (always the last one dispatched)
Settle(cs, outcome) == [cs EXCEPT ![Len(cs)].result = outcome]

\* no wrapped call is being made
NoRetry ==
    /\ attempt = 0
    /\ delay = 0
    /\ slept = <<>>
    /\ tries = <<>>
    /\ call_outcome = [kind |-> "none"]
    /\ deco = [kind |-> "none"]
    /\ inner = [kind |-> "none"]

\* no second request
NoOther == [pc |-> "none"]

\* ----------------------------------------------------------------- Init
Init ==
    /\ pc = "start"
    /\ query \in Queries
    /\ plan = <<>>
    /\ idx = 0
    /\ links = <<>>
    /\ result = TextAnswer("")
    /\ sub_results = <<>>
    /\ all_links = <<>>
    /\ events = <<>>
    /\ calls = <<>>
    /\ request = [query |-> query, credentials |-> "basic"]
    /\ disconnected = FALSE
    /\ NoRetry
    /\ other = NoOther

\* -------------------------------------------------------------- actions
\* yield progress "Planning research strategy..."
Start ==
    /\ pc = "start"
    /\ events' = Append(events, send_event("progress", [message |-> "planning"]))
    /\ pc' = "plan_call"
    /\ UNCHANGED <<query, plan, idx, links, result, sub_results, all_links, calls>>
    /\ UNCHANGED outside

\* await asyncio.to_thread(planner.plan, query)
CallPlanner ==
    /\ pc = "plan_call"
    /\ calls' = Append(calls, NewCall("plan", 0, query))
    /\ pc' = "plan_wait"
    /\ UNCHANGED <<query, plan, idx, links, result, sub_results, all_links, events>>
    /\ UNCHANGED outside

\* faulty variant of PlannerRaises: the return after the error event is missing
PlannerRaises_noReturn ==
    /\ pc = "plan_wait"
    /\ \E e \in Errors :
         events' = Append(events,
                      send_event("error", [message |-> <<"Planning failed", e>>]))
    /\ calls' = Settle(calls, "raised")
    /\ idx' = 1
    /\ pc' = "loop"
    /\ UNCHANGED <<query, plan, links, result, sub_results, all_links>>
    /\ UNCHANGED outside

\* faulty variant of PlannerRaises: a failed planning is tried again
PlannerRaises_retry ==
    /\ pc = "plan_wait"
    /\ calls' = Settle(calls, "raised")
    /\ pc' = "plan_call"
    /\ UNCHANGED <<query, plan, idx, links, result, sub_results, all_links,
                   events>>
    /\ UNCHANGED outside

\* planner.plan raised: yield error "Planning failed: ..." and return
PlannerRaises ==
    /\ pc = "plan_wait"
    /\ \E e \in Errors :
         events' = Append(events,
                      send_event("error", [message |-> <<"Planning failed", e>>]))
    /\ calls' = Settle(calls, "raised")
    /\ pc' = "done"
    /\ UNCHANGED <<query, plan, idx, links, result, sub_results, all_links>>
    /\ UNCHANGED outside

\* faulty variant of PlannerReturns: the plan event is not emitted
PlannerReturns_noPlanEvent ==
    /\ pc = "plan_wait"
    /\ \E p \in SeqsUpTo(Questions, MaxN) : plan' = p
    /\ calls' = Settle(calls, "ok")
    /\ sub_results' = <<>>
    /\ all_links' = <<>>
    /\ idx' = 1
    /\ pc' = "loop"
    /\ UNCHANGED <<query, links, result, events>>
    /\ UNCHANGED outside

\* planner.plan returned: yield plan; sub_results = []; all_links = []
PlannerReturns ==
    /\ pc = "plan_wait"
    /\ \E p \in SeqsUpTo(Questions, MaxN) :
         /\ plan' = p
         /\ events' = Append(events,
                        send_event("plan", [sub_questions |-> p,
                                            reasoning |-> "r",
                                            total |-> Len(p)]))
    /\ calls' = Settle(calls, "ok")
    /\ sub_results' = <<>>
    /\ all_links' = <<>>
    /\ idx' = 1
    /\ pc' = "loop"
    /\ UNCHANGED <<query, links, result>>
    /\ UNCHANGED outside

\* for idx, sub_q in enumerate(plan.sub_questions, 1): yield question
NextQuestion ==
    /\ pc = "loop"
    /\ idx <= Len(plan)
    /\ events' = Append(events,
                   send_event("question", [index |-> idx,
                                           question |-> plan[idx],
                                           total |-> Len(plan)]))
    /\ pc' = "sources_call"
    /\ UNCHANGED <<query, plan, idx, links, result, sub_results, all_links, calls>>
    /\ UNCHANGED outside

\* await asyncio.to_thread(searcher.get_sources, sub_q)
CallGetSources ==
    /\ pc = "sources_call"
    /\ calls' = Append(calls, NewCall("get_sources", idx, plan[idx]))
    /\ pc' = "sources_wait"
    /\ UNCHANGED <<query, plan, idx, links, result, sub_results, all_links, events>>
    /\ UNCHANGED outside

\* faulty variant of GetSourcesReturns: the event carries the 0-based index
GetSourcesReturns_zeroBased ==
    /\ pc = "sources_wait"
    /\ \E l \in SeqsUpTo(Urls, MaxLinks) :
         /\ links' = l
         /\ events' = Append(events,
                        send_event("sources", [index |-> idx - 1, sources |-> l]))
    /\ calls' = Settle(calls, "ok")
    /\ pc' = "research_call"
    /\ UNCHANGED <<query, plan, idx, result, sub_results, all_links>>
    /\ UNCHANGED outside

\* faulty variant of GetSourcesReturns: the research call is dispatched
\* before the sources event is handed over
GetSourcesReturns_researchFirst ==
    /\ pc = "sources_wait"
    /\ \E l \in SeqsUpTo(Urls, MaxLinks) :
         /\ links' = l
         /\ events' = Append(events,
                        send_event("sources", [index |-> idx, sources |-> l]))
    /\ calls' = Append(Settle(calls, "ok"), NewCall("research", idx, plan[idx]))
    /\ pc' = "research_wait"
    /\ UNCHANGED <<query, plan, idx, result, sub_results, all_links>>
    /\ UNCHANGED outside

\* get_sources returned links: yield sources
GetSourcesReturns ==
    /\ pc = "sources_wait"
    /\ \E l \in SeqsUpTo(Urls, MaxLinks) :
         /\ links' = l
         /\ events' = Append(events,
                        send_event("sources", [index |-> idx, sources |-> l]))
    /\ calls' = Settle(calls, "ok")
    /\ pc' = "research_call"
    /\ UNCHANGED <<query, plan, idx, result, sub_results, all_links>>
    /\ UNCHANGED outside

\* faulty variant of HandleSubQuestionError: the failure is recorded but no
\* answer event is emitted for it
HandleSubQuestionError_silent(e) ==
    /\ sub_results' = Append(sub_results, ErrorResult(idx, plan[idx], e))
    /\ calls' = Settle(calls, "raised")
    /\ idx' = idx + 1
    /\ pc' = "loop"
    /\ UNCHANGED <<query, plan, links, result, all_links, events>>
    /\ UNCHANGED outside

\* faulty variant of HandleSubQuestionError: the failed sub-question gets its
\* answer event but no entry in sub_results
HandleSubQuestionError_noAppend(e) ==
    /\ events' = Append(events,
                   send_event("answer", [index |-> idx, answer |-> ErrorAnswer(e)]))
    /\ calls' = Settle(calls, "raised")
    /\ idx' = idx + 1
    /\ pc' = "loop"
    /\ UNCHANGED <<query, plan, links, result, all_links, sub_results>>
    /\ UNCHANGED outside

\* faulty variant of HandleSubQuestionError: the accumulator gets the bare
\* message of the exception, the answer event the "Error: ..." string
HandleSubQuestionError_bareMessage(e) ==
    /\ sub_results' =
         Append(sub_results,
                [ErrorResult(idx, plan[idx], e) EXCEPT !.answer = TextAnswer(e)])
    /\ events' = Append(events,
                   send_event("answer", [index |-> idx, answer |-> ErrorAnswer(e)]))
    /\ calls' = Settle(calls, "raised")
    /\ idx' = idx + 1
    /\ pc' = "loop"
    /\ UNCHANGED <<query, plan, links, result, all_links>>
    /\ UNCHANGED outside

\* except Exception as e: append error_result, yield answer "Error: ...";
\* the loop goes on with the next sub-question
HandleSubQuestionError(e) ==
    /\ sub_results' = Append(sub_results, ErrorResult(idx, plan[idx], e))
    /\ events' = Append(events,
                   send_event("answer", [index |-> idx, answer |-> ErrorAnswer(e)]))
    /\ calls' = Settle(calls, "raised")
    /\ idx' = idx + 1
    /\ pc' = "loop"
    /\ UNCHANGED <<query, plan, links, result, all_links>>
    /\ UNCHANGED outside

\* faulty variant of GetSourcesRaises: the lookup has a try of its own, so a
\* failed lookup leaves links empty and the research call follows
GetSourcesRaises_ownTry ==
    /\ pc = "sources_wait"
    /\ links' = <<>>
    /\ calls' = Settle(calls, "raised")
    /\ pc' = "research_call"
    /\ UNCHANGED <<query, plan, idx, result, sub_results, all_links, events>>
    /\ UNCHANGED outside

\* get_sources raised inside the try of the loop body
GetSourcesRaises ==
    /\ pc = "sources_wait"
    /\ \E e \in Errors : HandleSubQuestionError(e)

\* faulty variant of CallResearch: the research call is made twice
CallResearch_twice ==
    /\ pc = "research_call"
    /\ calls' = Append(Append(calls, [NewCall("research", idx, plan[idx])
                                        EXCEPT !.result = "ok"]),
                       NewCall("research", idx, plan[idx]))
    /\ pc' = "research_wait"
    /\ UNCHANGED <<query, plan, idx, links, result, sub_results, all_links, events>>
    /\ UNCHANGED outside

\* await asyncio.to_thread(searcher.research, sub_q)
CallResearch ==
    /\ pc = "research_call"
    /\ calls' = Append(calls, NewCall("research", idx, plan[idx]))
    /\ pc' = "research_wait"
    /\ UNCHANGED <<query, plan, idx, links, result, sub_results, all_links, events>>
    /\ UNCHANGED outside

\* research returned (result, context, _): yield answer
ResearchReturns ==
    /\ pc = "research_wait"
    /\ \E a \in Answers :
         /\ result' = TextAnswer(a)
         /\ events' = Append(events,
                        send_event("answer", [index |-> idx,
                                              answer |-> TextAnswer(a)]))
    /\ calls' = Settle(calls, "ok")
    /\ pc' = "append"
    /\ UNCHANGED <<query, plan, idx, links, sub_results, all_links>>
    /\ UNCHANGED outside

\* faulty variant of ResearchRaises: a failed sub-question aborts the stream
ResearchRaises_abort ==
    /\ pc = "research_wait"
    /\ \E e \in Errors :
         events' = Append(events, send_event("error", [message |-> <<e>>]))
    /\ calls' = Settle(calls, "raised")
    /\ pc' = "done"
    /\ UNCHANGED <<query, plan, idx, links, result, sub_results, all_links>>
    /\ UNCHANGED outside

\* faulty variant of ResearchRaises: the links of the failed sub-question
\* are kept, in its result and in all_links
ResearchRaises_keepLinks ==
    /\ pc = "research_wait"
    /\ \E e \in Errors :
         /\ sub_results' =
              Append(sub_results,
                     [ErrorResult(idx, plan[idx], e) EXCEPT !.sources = links])
         /\ events' = Append(events,
                        send_event("answer",
                                   [index |-> idx, answer |-> ErrorAnswer(e)]))
    /\ all_links' = all_links \o links
    /\ calls' = Settle(calls, "raised")
    /\ idx' = idx + 1
    /\ pc' = "loop"
    /\ UNCHANGED <<query, plan, links, result>>
    /\ UNCHANGED outside

\* research raised inside the try of the loop body
ResearchRaises ==
    /\ pc = "research_wait"
    /\ \E e \in Errors : HandleSubQuestionError(e)

\* faulty variant of AppendResult: all_links is overwritten, not extended
AppendResult_overwrite ==
    /\ pc = "append"
    /\ sub_results' = Append(sub_results, SuccessResult(plan[idx], result, links))
    /\ all_links' = links
    /\ idx' = idx + 1
    /\ pc' = "loop"
    /\ UNCHANGED <<query, plan, links, result, events, calls>>
    /\ UNCHANGED outside

\* faulty variant of AppendResult: the result is put in front of the list
AppendResult_prepend ==
    /\ pc = "append"
    /\ sub_results' = <<SuccessResult(plan[idx], result, links)>> \o sub_results
    /\ all_links' = all_links \o links
    /\ idx' = idx + 1
    /\ pc' = "loop"
    /\ UNCHANGED <<query, plan, links, result, events, calls>>
    /\ UNCHANGED outside

\* sub_results.append({...}); all_links.extend(links)
AppendResult ==
    /\ pc = "append"
    /\ sub_results' = Append(sub_results, SuccessResult(plan[idx], result, links))
    /\ all_links' = all_links \o links
    /\ idx' = idx + 1
    /\ pc' = "loop"
    /\ UNCHANGED <<query, plan, links, result, events, calls>>
    /\ UNCHANGED outside

\* if not sub_results: yield error "No results to synthesize" and return
NoResults ==
    /\ pc = "loop"
    /\ idx > Len(plan)
    /\ sub_results = <<>>
    /\ events' = Append(events,
                   send_event("error", [message |-> <<"No results to synthesize">>]))
    /\ pc' = "done"
    /\ UNCHANGED <<query, plan, idx, links, result, sub_results, all_links, calls>>
    /\ UNCHANGED outside

\* faulty variant of EmitAllSources: no all_sources event when no link was
\* collected
EmitAllSources_skipEmpty ==
    /\ pc = "loop"
    /\ idx > Len(plan)
    /\ sub_results # <<>>
    /\ IF all_links = <<>>
         THEN UNCHANGED events
         ELSE \E srcs \in ListOfSet(all_links) :
                events' = Append(events,
                            send_event("all_sources", [sources |-> srcs,
                                                       total |-> LenOfSet(all_links)]))
    /\ pc' = "synth_progress"
    /\ UNCHANGED <<query, plan, idx, links, result, sub_results, all_links, calls>>
    /\ UNCHANGED outside

\* faulty variant of EmitAllSources: the links are sent as collected, and
\* only the count is taken over the set
EmitAllSources_noDedup ==
    /\ pc = "loop"
    /\ idx > Len(plan)
    /\ sub_results # <<>>
    /\ events' = Append(events,
                   send_event("all_sources", [sources |-> all_links,
                                              total |-> LenOfSet(all_links)]))
    /\ pc' = "synth_progress"
    /\ UNCHANGED <<query, plan, idx, links, result, sub_results, all_links, calls>>
    /\ UNCHANGED outside

\* yield all_sources with list(set(all_links)) and len(set(all_links))
EmitAllSources ==
    /\ pc = "loop"
    /\ idx > Len(plan)
    /\ sub_results # <<>>
    /\ \E srcs \in ListOfSet(all_links) :
         events' = Append(events,
                     send_event("all_sources", [sources |-> srcs,
                                                total |-> LenOfSet(all_links)]))
    /\ pc' = "synth_progress"
    /\ UNCHANGED <<query, plan, idx, links, result, sub_results, all_links, calls>>
    /\ UNCHANGED outside

\* faulty variant of EmitSynthProgress: the progress event is not emitted
EmitSynthProgress_silent ==
    /\ pc = "synth_progress"
    /\ pc' = "synth_call"
    /\ UNCHANGED <<query, plan, idx, links, result, sub_results, all_links,
                   calls, events>>
    /\ UNCHANGED outside

\* yield progress "Synthesizing final answer..."
EmitSynthProgress ==
    /\ pc = "synth_progress"
    /\ events' = Append(events, send_event("progress", [message |-> "synthesizing"]))
    /\ pc' = "synth_call"
    /\ UNCHANGED <<query, plan, idx, links, result, sub_results, all_links, calls>>
    /\ UNCHANGED outside

\* faulty variant of CallSynthesizer: the findings leave out the failed
\* sub-questions
CallSynthesizer_successesOnly ==
    /\ pc = "synth_call"
    /\ calls' = Append(calls,
                  NewCall("synthesize", 0,
                          [query |-> query,
                           context |-> SynthesisContext(
                              SelectSeq(sub_results,
                                        LAMBDA r : r.answer.kind # "Error"))]))
    /\ pc' = "synth_wait"
    /\ UNCHANGED <<query, plan, idx, links, result, sub_results, all_links, events>>
    /\ UNCHANGED outside

\* await asyncio.to_thread(lambda: client.chat.completions.create(...))
CallSynthesizer ==
    /\ pc = "synth_call"
    /\ calls' = Append(calls,
                  NewCall("synthesize", 0,
                          [query |-> query, context |-> SynthesisContext(sub_results)]))
    /\ pc' = "synth_wait"
    /\ UNCHANGED <<query, plan, idx, links, result, sub_results, all_links, events>>
    /\ UNCHANGED outside

\* faulty variant of SynthesisReturns: empty content is not checked
SynthesisReturns_noEmptyCheck ==
    /\ pc = "synth_wait"
    /\ \E final_answer \in Finals :
         /\ events' = Append(events, send_event("final", [answer |-> final_answer]))
         /\ calls' = Settle(calls, IF final_answer = "" THEN "empty" ELSE "ok")
    /\ pc' = "complete"
    /\ UNCHANGED <<query, plan, idx, links, result, sub_results, all_links>>
    /\ UNCHANGED outside

\* the synthesis call returned content: empty content raises ValueError, which
\* the handler of the same try turns into an error event and a return;
\* otherwise yield final
SynthesisReturns ==
    /\ pc = "synth_wait"
    /\ \E final_answer \in Finals :
         /\ IF final_answer = ""
              THEN /\ events' = Append(events,
                                  send_event("error",
                                     [message |-> <<"Synthesis failed", "empty">>]))
                   /\ pc' = "done"
              ELSE /\ events' = Append(events,
                                  send_event("final", [answer |-> final_answer]))
                   /\ pc' = "complete"
         /\ calls' = Settle(calls, IF final_answer = "" THEN "empty" ELSE "ok")
    /\ UNCHANGED <<query, plan, idx, links, result, sub_results, all_links>>
    /\ UNCHANGED outside

\* faulty variant of SynthesisRaises: the return after the error event is missing
SynthesisRaises_noReturn ==
    /\ pc = "synth_wait"
    /\ \E e \in Errors :
         events' = Append(events,
                     send_event("error", [message |-> <<"Synthesis failed", e>>]))
    /\ calls' = Settle(calls, "raised")
    /\ pc' = "complete"
    /\ UNCHANGED <<query, plan, idx, links, result, sub_results, all_links>>
    /\ UNCHANGED outside

\* the synthesis call raised: yield error "Synthesis failed: ..." and return
SynthesisRaises ==
    /\ pc = "synth_wait"
    /\ \E e \in Errors :
         events' = Append(events,
                     send_event("error", [message |-> <<"Synthesis failed", e>>]))
    /\ calls' = Settle(calls, "raised")
    /\ pc' = "done"
    /\ UNCHANGED <<query, plan, idx, links, result, sub_results, all_links>>
    /\ UNCHANGED outside

\* yield complete with len(plan.sub_questions)
Complete ==
    /\ pc = "complete"
    /\ events' = Append(events,
                   send_event("complete", [total_sub_questions |-> Len(plan)]))
    /\ pc' = "done"
    /\ UNCHANGED <<query, plan, idx, links, result, sub_results, all_links, calls>>
    /\ UNCHANGED outside

\* ------------------------------------------------------ request validation
\* A query string is kept as the lengths of its three parts: leading
\* whitespace, the text from its first to its last non-blank character, and
\* trailing whitespace.
QueryMinLength == 1
QueryMaxLength == 1000

RawQueries ==
    [lead : {0, 1}, body : {0, 1, QueryMaxLength, QueryMaxLength + 1}, trail : {0}]

Credentials == {"none", "basic"}

\* len(v)
QueryLen(q) == q.lead + q.body + q.trail

\* v.strip()
Strip(q) == [lead |-> 0, body |-> q.body, trail |-> 0]

\* Field(..., min_length=1, max_length=1000): checked on the string as sent
FieldOk(q) == QueryLen(q) >= QueryMinLength /\ QueryLen(q) <= QueryMaxLength

\* faulty variant of Accepts: the query is stripped before its length is checked
Accepts_stripFirst(q) == FieldOk(Strip(q))

\* ResearchRequest accepts q: the field constraints hold, and validate_query,
\* which runs after them, finds the stripped query non-empty
Accepts(q) == FieldOk(q) /\ QueryLen(Strip(q)) # 0

\* the request as it arrives at POST /research/stream
RequestInit ==
    /\ pc = "request"
    /\ request \in [query : RawQueries, credentials : Credentials]
    /\ query = request.query
    /\ plan = <<>>
    /\ idx = 0
    /\ links = <<>>
    /\ result = TextAnswer("")
    /\ sub_results = <<>>
    /\ all_links = <<>>
    /\ events = <<>>
    /\ calls = <<>>
    /\ disconnected = FALSE
    /\ NoRetry
    /\ other = NoOther

\* validation fails: the handler is not entered (422)
RejectRequest ==
    /\ pc = "request"
    /\ ~Accepts(request.query)
    /\ pc' = "rejected"
    /\ UNCHANGED <<query, plan, idx, links, result, sub_results, all_links,
                   events, calls>>
    /\ UNCHANGED outside

\* validation passes: query = request.query is the stripped string, and the
\* response streams event_generator()
AcceptRequest ==
    /\ pc = "request"
    /\ Accepts(request.query)
    /\ query' = Strip(request.query)
    /\ pc' = "start"
    /\ UNCHANGED <<plan, idx, links, result, sub_results, all_links,
                   events, calls>>
    /\ UNCHANGED outside

Next ==
    \/ Start
    \/ CallPlanner
    \/ PlannerRaises
    \/ PlannerReturns
    \/ NextQuestion
    \/ CallGetSources
    \/ GetSourcesReturns
    \/ GetSourcesRaises
    \/ CallResearch
    \/ ResearchReturns
    \/ ResearchRaises
    \/ AppendResult
    \/ NoResults
    \/ EmitAllSources
    \/ EmitSynthProgress
    \/ CallSynthesizer
    \/ SynthesisReturns
    \/ SynthesisRaises
    \/ Complete

Spec == Init /\ [][Next]_vars

\* the generator is resumed whenever it can take a step: the client keeps
\* reading, and every collaborator call in flight returns or raises
FairSpec == Spec /\ WF_vars(Next)

\* ------------------------------------------------------ client disconnect
\* the generator is suspended in an await of a collaborator call
AtAwait == pc \in {"plan_wait", "sources_wait", "research_wait", "synth_wait"}

\* the generator is suspended in a yield, or has not been started: after
\* the answer of a failed sub-question it waits in the handler's yield with
\* the index already advanced
AtYield ==
    \/ pc \in {"start", "plan_call", "sources_call", "research_call", "append",
               "synth_progress", "synth_call", "complete"}
    \/ /\ pc = "loop"
       /\ \/ sub_results = <<>> /\ idx = 1
          \/ /\ sub_results # <<>>
             /\ sub_results[Len(sub_results)].answer.kind = "Error"

\* faulty variant of Disconnect: the cancellation raised in the await is
\* caught by the handler of the sub-question, as `except BaseException` would
Disconnect_caught ==
    /\ ~disconnected
    /\ AtAwait \/ AtYield
    /\ disconnected' = TRUE
    /\ IF pc \in {"sources_wait", "research_wait"}
         THEN /\ sub_results' =
                   Append(sub_results, ErrorResult(idx, plan[idx], "cancelled"))
              /\ events' = Append(events,
                             send_event("answer",
                                [index |-> idx, answer |-> ErrorAnswer("cancelled")]))
              /\ idx' = idx + 1
              /\ pc' = "loop"
         ELSE /\ pc' = "cancelled"
              /\ UNCHANGED <<sub_results, events, idx>>
    /\ UNCHANGED <<query, plan, links, result, all_links, calls>>
    /\ UNCHANGED <<request, attempt, delay, slept, tries, call_outcome, other,
                   deco, inner>>

\* the client disconnects while the generator is suspended.  In a yield the
\* generator is not resumed again.  In an await the response task is
\* cancelled there, the call in flight is left to itself, and none of the
\* `except Exception` handlers catches the cancellation; or the disconnect
\* is only seen at the next send, and the generator stays in the await
Disconnect ==
    /\ ~disconnected
    /\ AtAwait \/ AtYield
    /\ disconnected' = TRUE
    /\ \/ pc' = "cancelled"
       \/ AtAwait /\ pc' = pc
    /\ UNCHANGED <<query, plan, idx, links, result, sub_results, all_links,
                   events, calls>>
    /\ UNCHANGED <<request, attempt, delay, slept, tries, call_outcome, other,
                   deco, inner>>

\* the call in flight ends after the disconnect; the generator runs to its
\* next yield, the event it hands over is not sent, and the generator is
\* closed in that yield with its locals
SendFails ==
    /\ disconnected
    /\ AtAwait
    /\ \E r \in {"ok", "raised"} : calls' = Settle(calls, r)
    /\ pc' = "cancelled"
    /\ UNCHANGED <<query, plan, idx, links, result, sub_results, all_links,
                   events>>
    /\ UNCHANGED outside

\* one request, since the query plays no part in a disconnect
CancelInit == Init /\ query = "qa"

\* the generator is resumed only while the client is connected
CancelNext ==
    \/ ~disconnected /\ Next
    \/ Disconnect
    \/ SendFails

CancelSpec == CancelInit /\ [][CancelNext]_vars

\* ------------------------------------------------------ two requests
\* Each call of research_stream has its own query and its own generator,
\* whose locals are plan, sub_results, all_links and the loop variables.
\* The module-level planner, searcher and client are only read.

\* the plans and the link lists the two requests are given
PairPlans == {<<>>, <<"s1">>, <<"s2", "s1">>}
PairLinks == {<<>>, <<"u1">>}

\* the frame of the request that is running
CurrentFrame ==
    [pc |-> pc, query |-> query, plan |-> plan, idx |-> idx, links |-> links,
     result |-> result, sub_results |-> sub_results, all_links |-> all_links,
     events |-> events, calls |-> calls, request |-> request]

\* a request that has been accepted and whose generator has not started
NewFrame(q) ==
    [pc |-> "start", query |-> q, plan |-> <<>>, idx |-> 0, links |-> <<>>,
     result |-> TextAnswer(""), sub_results |-> <<>>, all_links |-> <<>>,
     events |-> <<>>, calls |-> <<>>,
     request |-> [query |-> q, credentials |-> "basic"]]

PairInit ==
    /\ pc = "start"
    /\ query = "qa"
    /\ plan = <<>>
    /\ idx = 0
    /\ links = <<>>
    /\ result = TextAnswer("")
    /\ sub_results = <<>>
    /\ all_links = <<>>
    /\ events = <<>>
    /\ calls = <<>>
    /\ request = [query |-> query, credentials |-> "basic"]
    /\ disconnected = FALSE
    /\ NoRetry
    /\ \E q \in Queries : other = NewFrame(q)

\* faulty variant of Switch: sub_results and all_links are one pair of
\* module-level lists that both requests use
Switch_sharedAccumulator ==
    /\ AtAwait \/ AtYield \/ pc = "done"
    /\ other.pc # "done"
    /\ other' = CurrentFrame
    /\ pc' = other.pc
    /\ query' = other.query
    /\ plan' = other.plan
    /\ idx' = other.idx
    /\ links' = other.links
    /\ result' = other.result
    /\ events' = other.events
    /\ calls' = other.calls
    /\ request' = other.request
    /\ UNCHANGED <<sub_results, all_links>>
    /\ UNCHANGED <<disconnected, attempt, delay, slept, tries, call_outcome,
                   deco, inner>>

\* the event loop leaves the running generator at a suspension point, or
\* when it has ended, and resumes the generator of the other request
Switch ==
    /\ AtAwait \/ AtYield \/ pc = "done"
    /\ other.pc # "done"
    /\ other' = CurrentFrame
    /\ pc' = other.pc
    /\ query' = other.query
    /\ plan' = other.plan
    /\ idx' = other.idx
    /\ links' = other.links
    /\ result' = other.result
    /\ sub_results' = other.sub_results
    /\ all_links' = other.all_links
    /\ events' = other.events
    /\ calls' = other.calls
    /\ request' = other.request
    /\ UNCHANGED <<disconnected, attempt, delay, slept, tries, call_outcome,
                   deco, inner>>

\* a step of the running generator, with the plans and link lists of
\* PairPlans and PairLinks
PairStep ==
    /\ Next
    /\ plan' \in PairPlans
    /\ links' \in PairLinks

PairNext ==
    \/ PairStep
    \/ Switch

PairSpec == PairInit /\ [][PairNext]_vars

\* ------------------------------------------------------ PlannerAgent.plan
\* retry_with_backoff(max_retries=3) on PlannerAgent.plan, with the defaults
\* initial_delay=1.0 and backoff_factor=2.0
PlannerMaxRetries == 3
InitialDelay == 1
BackoffFactor == 2

\* the value of the sub_questions field of the JSON object the LLM returned
SubQuestionsFields ==
    {[tag |-> "missing"], [tag |-> "not a list of strings"]}
      \cup {[tag |-> "list", v |-> l] : l \in SeqsUpTo(Questions, MaxN)}

\* what one call of client.chat.completions.create can do: raise, or return
\* content that is empty, not JSON, or a JSON object
LLMReplies ==
    {[kind |-> "raises"], [kind |-> "empty"], [kind |-> "not json"]}
      \cup {[kind |-> "object", sub_questions |-> f, reasoning |-> r] :
              f \in SubQuestionsFields, r \in {"missing", "r"}}

Raise(exc) == [kind |-> "raise", exc |-> exc]

Return(v) == [kind |-> "return", value |-> v]

\* ResearchPlan(original_query=..., sub_questions=..., reasoning=...)
ResearchPlan(q, sub_qs, reasoning) ==
    [original_query |-> q, sub_questions |-> sub_qs, reasoning |-> reasoning]

\* faulty variant of PlanBody: a missing field is read as an empty list,
\* parsed.get("sub_questions", [])
PlanBody_getWithDefault(q, reply) ==
    IF QueryLen(q) = 0 \/ QueryLen(Strip(q)) = 0 THEN Raise("ValueError")
    ELSE IF QueryLen(q) > 1000 THEN Raise("ValueError")
    ELSE IF reply.kind = "raises" THEN Raise("RuntimeError")
    ELSE IF reply.kind = "empty" THEN Raise("RuntimeError")
    ELSE IF reply.kind = "not json" THEN Raise("ValueError")
    ELSE IF reply.sub_questions.tag = "not a list of strings"
      THEN Raise("RuntimeError")
    ELSE Return(ResearchPlan(q,
                  IF reply.sub_questions.tag = "missing"
                    THEN <<>> ELSE reply.sub_questions.v,
                  IF reply.reasoning = "missing"
                    THEN "No reasoning provided" ELSE reply.reasoning))

\* the body of PlannerAgent.plan for one LLM reply: the two checks of the
\* query, then inside the try: empty content, json.loads, the missing field
\* and the construction of ResearchPlan, whose exceptions other than
\* JSONDecodeError become RuntimeError
PlanBody(q, reply) ==
    IF QueryLen(q) = 0 \/ QueryLen(Strip(q)) = 0 THEN Raise("ValueError")
    ELSE IF QueryLen(q) > 1000 THEN Raise("ValueError")
    ELSE IF reply.kind = "raises" THEN Raise("RuntimeError")
    ELSE IF reply.kind = "empty" THEN Raise("RuntimeError")
    ELSE IF reply.kind = "not json" THEN Raise("ValueError")
    ELSE IF reply.sub_questions.tag = "missing" THEN Raise("RuntimeError")
    ELSE IF reply.sub_questions.tag = "not a list of strings"
      THEN Raise("RuntimeError")
    ELSE Return(ResearchPlan(q, reply.sub_questions.v,
                  IF reply.reasoning = "missing"
                    THEN "No reasoning provided" ELSE reply.reasoning))

\* the generator's frame, which a call of the planner alone does not touch
frame == <<plan, idx, links, result, sub_results, all_links, events, calls>>

\* planner.plan(query) is called: delay = initial_delay, first attempt
PlannerInit ==
    /\ pc = "plan_attempt"
    /\ query \in RawQueries
    /\ plan = <<>>
    /\ idx = 0
    /\ links = <<>>
    /\ result = TextAnswer("")
    /\ sub_results = <<>>
    /\ all_links = <<>>
    /\ events = <<>>
    /\ calls = <<>>
    /\ request = [query |-> query, credentials |-> "basic"]
    /\ disconnected = FALSE
    /\ attempt = 0
    /\ delay = InitialDelay
    /\ slept = <<>>
    /\ tries = <<>>
    /\ call_outcome = [kind |-> "none"]
    /\ other = NoOther
    /\ deco = [kind |-> "none"]
    /\ inner = [kind |-> "none"]

\* return func(*args, **kwargs): the attempt returns a plan
PlanAttemptReturns ==
    /\ pc = "plan_attempt"
    /\ attempt < PlannerMaxRetries
    /\ \E reply \in LLMReplies :
         /\ PlanBody(query, reply).kind = "return"
         /\ tries' = Append(tries, reply)
         /\ call_outcome' = PlanBody(query, reply)
    /\ pc' = "plan_returned"
    /\ UNCHANGED <<query, request, other, deco, inner, disconnected, attempt,
                   delay, slept>>
    /\ UNCHANGED frame

\* except Exception: not the last attempt, so time.sleep(delay) begins
PlanAttemptRaises ==
    /\ pc = "plan_attempt"
    /\ attempt < PlannerMaxRetries
    /\ attempt # PlannerMaxRetries - 1
    /\ \E reply \in LLMReplies :
         /\ PlanBody(query, reply).kind = "raise"
         /\ tries' = Append(tries, reply)
    /\ pc' = "plan_sleep"
    /\ UNCHANGED <<query, request, other, deco, inner, disconnected, attempt,
                   delay, slept, call_outcome>>
    /\ UNCHANGED frame

\* except Exception: attempt == max_retries - 1, so raise
PlanLastAttemptRaises ==
    /\ pc = "plan_attempt"
    /\ attempt = PlannerMaxRetries - 1
    /\ \E reply \in LLMReplies :
         /\ PlanBody(query, reply).kind = "raise"
         /\ tries' = Append(tries, reply)
         /\ call_outcome' = PlanBody(query, reply)
    /\ pc' = "plan_raised"
    /\ UNCHANGED <<query, request, other, deco, inner, disconnected, attempt,
                   delay, slept>>
    /\ UNCHANGED frame

\* time.sleep(delay) is over: delay *= backoff_factor, next attempt
PlanSleepEnds ==
    /\ pc = "plan_sleep"
    /\ slept' = Append(slept, delay)
    /\ delay' = delay * BackoffFactor
    /\ attempt' = attempt + 1
    /\ pc' = "plan_attempt"
    /\ UNCHANGED <<query, request, other, deco, inner, disconnected, tries,
                   call_outcome>>
    /\ UNCHANGED frame

PlannerNext ==
    \/ PlanAttemptReturns
    \/ PlanAttemptRaises
    \/ PlanLastAttemptRaises
    \/ PlanSleepEnds

PlannerSpec == PlannerInit /\ [][PlannerNext]_vars

\* ------------------------------------------------------ retry_with_backoff
\* the largest max_retries tried, and the delays and factors tried
RetriesBound == 3
InitialDelays == {1, 3}
BackoffFactors == {2, 3}

\* what the wrapped function can return, None included, and raise
Values == {"v1", "None"}
Exceptions == {"e1", "e2"}

\* decorator(func) has been applied with these arguments
DecoArgs ==
    [max_retries : 0..RetriesBound,
     initial_delay : InitialDelays,
     backoff_factor : BackoffFactors]

\* the wrapper has ended: by the return of func's value, by the raise of
\* the last attempt, or by running off the end of the for loop
RetryEnded == pc \in {"retry_returned", "retry_raised", "retry_fell_through"}

\* the variables a call of the wrapper does not touch
idle == <<query, request, other, inner, disconnected>>

\* wrapper(*args, **kwargs) is called: delay = initial_delay
RetryInit ==
    /\ pc = "retry_attempt"
    /\ deco \in DecoArgs
    /\ attempt = 0
    /\ delay = deco.initial_delay
    /\ slept = <<>>
    /\ tries = <<>>
    /\ call_outcome = [kind |-> "none"]
    /\ query = "qa"
    /\ plan = <<>>
    /\ idx = 0
    /\ links = <<>>
    /\ result = TextAnswer("")
    /\ sub_results = <<>>
    /\ all_links = <<>>
    /\ events = <<>>
    /\ calls = <<>>
    /\ request = [query |-> query, credentials |-> "basic"]
    /\ disconnected = FALSE
    /\ other = NoOther
    /\ inner = [kind |-> "none"]

\* for attempt in range(max_retries) has no iteration left: the wrapper
\* ends without a return statement, which returns None
LoopEnds ==
    /\ pc = "retry_attempt"
    /\ attempt >= deco.max_retries
    /\ call_outcome' = Return("None")
    /\ pc' = "retry_fell_through"
    /\ UNCHANGED <<deco, attempt, delay, slept, tries>>
    /\ UNCHANGED idle
    /\ UNCHANGED frame

\* return func(*args, **kwargs)
AttemptReturns ==
    /\ pc = "retry_attempt"
    /\ attempt < deco.max_retries
    /\ \E v \in Values :
         /\ tries' = Append(tries, Return(v))
         /\ call_outcome' = Return(v)
    /\ pc' = "retry_returned"
    /\ UNCHANGED <<deco, attempt, delay, slept>>
    /\ UNCHANGED idle
    /\ UNCHANGED frame

\* except Exception: not the last attempt, so time.sleep(delay) begins
AttemptRaises ==
    /\ pc = "retry_attempt"
    /\ attempt < deco.max_retries
    /\ attempt # deco.max_retries - 1
    /\ \E e \in Exceptions : tries' = Append(tries, Raise(e))
    /\ pc' = "retry_sleep"
    /\ UNCHANGED <<deco, attempt, delay, slept, call_outcome>>
    /\ UNCHANGED idle
    /\ UNCHANGED frame

\* faulty variant of LastAttemptRaises: the first exception is re-raised
LastAttemptRaises_first ==
    /\ pc = "retry_attempt"
    /\ attempt = deco.max_retries - 1
    /\ \E e \in Exceptions :
         /\ tries' = Append(tries, Raise(e))
         /\ call_outcome' = Append(tries, Raise(e))[1]
    /\ pc' = "retry_raised"
    /\ UNCHANGED <<deco, attempt, delay, slept>>
    /\ UNCHANGED idle
    /\ UNCHANGED frame

\* faulty variant of LastAttemptRaises: the last exception is swallowed and
\* the loop runs out
LastAttemptRaises_swallowed ==
    /\ pc = "retry_attempt"
    /\ attempt = deco.max_retries - 1
    /\ \E e \in Exceptions : tries' = Append(tries, Raise(e))
    /\ call_outcome' = Return("None")
    /\ pc' = "retry_fell_through"
    /\ UNCHANGED <<deco, attempt, delay, slept>>
    /\ UNCHANGED idle
    /\ UNCHANGED frame

\* except Exception: attempt == max_retries - 1, so raise
LastAttemptRaises ==
    /\ pc = "retry_attempt"
    /\ attempt = deco.max_retries - 1
    /\ \E e \in Exceptions :
         /\ tries' = Append(tries, Raise(e))
         /\ call_outcome' = Raise(e)
    /\ pc' = "retry_raised"
    /\ UNCHANGED <<deco, attempt, delay, slept>>
    /\ UNCHANGED idle
    /\ UNCHANGED frame

\* faulty variant of SleepEnds: the delay grows by the factor, not times it
SleepEnds_additive ==
    /\ pc = "retry_sleep"
    /\ slept' = Append(slept, delay)
    /\ delay' = delay + deco.backoff_factor
    /\ attempt' = attempt + 1
    /\ pc' = "retry_attempt"
    /\ UNCHANGED <<deco, tries, call_outcome>>
    /\ UNCHANGED idle
    /\ UNCHANGED frame

\* time.sleep(delay) is over: delay *= backoff_factor, next attempt
SleepEnds ==
    /\ pc = "retry_sleep"
    /\ slept' = Append(slept, delay)
    /\ delay' = delay * deco.backoff_factor
    /\ attempt' = attempt + 1
    /\ pc' = "retry_attempt"
    /\ UNCHANGED <<deco, tries, call_outcome>>
    /\ UNCHANGED idle
    /\ UNCHANGED frame

RetryNext ==
    \/ LoopEnds
    \/ AttemptReturns
    \/ AttemptRaises
    \/ LastAttemptRaises
    \/ SleepEnds

RetrySpec == RetryInit /\ [][RetryNext]_vars

\* ------------------------------------------- SearcherAgent.research
\* retry_with_backoff(max_retries=2) on SearcherAgent.research and
\* retry_with_backoff(max_retries=3) on web_search, which research calls
SearcherMaxRetries == 2
SearchMaxRetries == 3

\* the queries research is called with: empty, blank, and with text
SearchQueries == {q \in RawQueries : q.body <= 1 /\ q.trail = 0}
ApiKeys == {"", "key"}

\* web_search is entered: its wrapper starts with delay = initial_delay
NewSearch(in) ==
    [in EXCEPT !.attempt = 0, !.delay = InitialDelay, !.slept = <<>>]

\* if not query or not query.strip(): raise; if not api_key: raise
ArgumentsOk == QueryLen(Strip(query)) # 0 /\ inner.api_key # ""

\* the variables a call of research does not touch
apart == <<query, request, other, deco, disconnected>>

\* searcher.research(query) is called
ResearchInit ==
    /\ pc = "search_attempt"
    /\ query \in SearchQueries
    /\ deco = [max_retries |-> SearcherMaxRetries,
               initial_delay |-> InitialDelay,
               backoff_factor |-> BackoffFactor]
    /\ attempt = 0
    /\ delay = InitialDelay
    /\ slept = <<>>
    /\ tries = <<>>
    /\ call_outcome = [kind |-> "none"]
    /\ \E k \in ApiKeys :
         inner = NewSearch([attempt |-> 0, delay |-> 0, slept |-> <<>>,
                            api_key |-> k, api_calls |-> 0, llm_calls |-> 0])
    /\ plan = <<>>
    /\ idx = 0
    /\ links = <<>>
    /\ result = TextAnswer("")
    /\ sub_results = <<>>
    /\ all_links = <<>>
    /\ events = <<>>
    /\ calls = <<>>
    /\ request = [query |-> "qa", credentials |-> "basic"]
    /\ disconnected = FALSE
    /\ other = NoOther

\* an attempt of research has raised (every exception of its body becomes
\* RuntimeError): re-raised on the last attempt, else time.sleep(delay)
ResearchAttemptFailed(what) ==
    /\ tries' = Append(tries, [failed |-> what])
    /\ IF attempt = SearcherMaxRetries - 1
         THEN /\ call_outcome' = Raise("RuntimeError")
              /\ pc' = "research_raised"
         ELSE /\ UNCHANGED call_outcome
              /\ pc' = "research_sleep"
    /\ UNCHANGED <<attempt, delay, slept>>

\* an attempt of web_search has raised: on its last attempt the exception
\* leaves web_search and fails the attempt of research, else time.sleep
SearchAttemptFailed(in) ==
    /\ inner' = in
    /\ IF in.attempt = SearchMaxRetries - 1
         THEN ResearchAttemptFailed("search")
         ELSE /\ pc' = "search_sleep"
              /\ UNCHANGED <<attempt, delay, slept, tries, call_outcome>>

\* web_search raises ValueError before it reaches the Tavily client
SearchRejectsArguments ==
    /\ pc = "search_attempt"
    /\ ~ArgumentsOk
    /\ SearchAttemptFailed(inner)
    /\ UNCHANGED apart
    /\ UNCHANGED frame

\* client.search raises, or its response is empty or has no "results"
SearchApiFails ==
    /\ pc = "search_attempt"
    /\ ArgumentsOk
    /\ SearchAttemptFailed([inner EXCEPT !.api_calls = @ + 1])
    /\ UNCHANGED apart
    /\ UNCHANGED frame

\* client.search returns results: without any, research returns its
\* placeholder answer; with some, research goes on to _synthesize_answer
SearchReturns ==
    /\ pc = "search_attempt"
    /\ ArgumentsOk
    /\ inner' = [inner EXCEPT !.api_calls = @ + 1]
    /\ \E search_results \in {"none", "some"} :
         IF search_results = "none"
           THEN /\ tries' = Append(tries, [failed |-> "nothing"])
                /\ call_outcome' = Return("No search results found for this query.")
                /\ pc' = "research_returned"
           ELSE /\ pc' = "synthesize"
                /\ UNCHANGED <<tries, call_outcome>>
    /\ UNCHANGED <<attempt, delay, slept>>
    /\ UNCHANGED apart
    /\ UNCHANGED frame

\* time.sleep(delay) of web_search's wrapper is over
SearchSleepEnds ==
    /\ pc = "search_sleep"
    /\ inner' = [inner EXCEPT !.slept = Append(@, inner.delay),
                              !.delay = @ * BackoffFactor,
                              !.attempt = @ + 1]
    /\ pc' = "search_attempt"
    /\ UNCHANGED <<attempt, delay, slept, tries, call_outcome>>
    /\ UNCHANGED apart
    /\ UNCHANGED frame

\* _synthesize_answer returns a non-empty answer: research returns it
SynthesizeReturns ==
    /\ pc = "synthesize"
    /\ inner' = [inner EXCEPT !.llm_calls = @ + 1]
    /\ \E a \in Answers : call_outcome' = Return(a)
    /\ tries' = Append(tries, [failed |-> "nothing"])
    /\ pc' = "research_returned"
    /\ UNCHANGED <<attempt, delay, slept>>
    /\ UNCHANGED apart
    /\ UNCHANGED frame

\* faulty variant of SynthesizeFails: the search is made again inside the
\* same attempt of research
SynthesizeFails_searchAgain ==
    /\ pc = "synthesize"
    /\ inner' = NewSearch([inner EXCEPT !.llm_calls = @ + 1])
    /\ pc' = "search_attempt"
    /\ UNCHANGED <<attempt, delay, slept, tries, call_outcome>>
    /\ UNCHANGED apart
    /\ UNCHANGED frame

\* _synthesize_answer raises, or returns "" and research raises ValueError
SynthesizeFails ==
    /\ pc = "synthesize"
    /\ inner' = [inner EXCEPT !.llm_calls = @ + 1]
    /\ ResearchAttemptFailed("synthesis")
    /\ UNCHANGED apart
    /\ UNCHANGED frame

\* time.sleep(delay) of research's wrapper is over: the next attempt of
\* research calls web_search anew
ResearchSleepEnds ==
    /\ pc = "research_sleep"
    /\ slept' = Append(slept, delay)
    /\ delay' = delay * BackoffFactor
    /\ attempt' = attempt + 1
    /\ inner' = NewSearch(inner)
    /\ pc' = "search_attempt"
    /\ UNCHANGED <<tries, call_outcome>>
    /\ UNCHANGED apart
    /\ UNCHANGED frame

ResearchNext ==
    \/ SearchRejectsArguments
    \/ SearchApiFails
    \/ SearchReturns
    \/ SearchSleepEnds
    \/ SynthesizeReturns
    \/ SynthesizeFails
    \/ ResearchSleepEnds

ResearchSpec == ResearchInit /\ [][ResearchNext]_vars

RequestNext ==
    \/ RejectRequest
    \/ AcceptRequest
    \/ Next

RequestSpec == RequestInit /\ [][RequestNext]_vars

\* ------------------------------------------------ reading the stream
\* the positions of the events of one type
Positions(t) == {p \in DOMAIN events : events[p].type = t}

\* the type of every event, in emission order
EventTypes == [p \in DOMAIN events |-> events[p].type]

\* complete and error end a stream
TerminalPositions == Positions("complete") \cup Positions("error")

\* the events that carry an index field
IndexedPositions ==
    Positions("question") \cup Positions("sources") \cup Positions("answer")

\* the index fields of the events of one type, in emission order
IndicesOf(t) ==
    LET sel == SelectSeq(events, LAMBDA ev : ev.type = t)
    IN  [k \in DOMAIN sel |-> sel[k].index]

\* the calls of one operation for one sub-question
CallsOf(op, i) == {k \in DOMAIN calls : calls[k].op = op /\ calls[k].idx = i}

\* the calls of one operation that ended with one outcome
CallsEnded(op, outcome) ==
    {k \in DOMAIN calls : calls[k].op = op /\ calls[k].result = outcome}

PlanningSucceeded == CallsEnded("plan", "ok") # {}

\* no planner or synthesis call has failed (raised or come back empty)
NoFatalFailure ==
    /\ CallsEnded("plan", "raised") = {}
    /\ CallsEnded("synthesize", "raised") = {}
    /\ CallsEnded("synthesize", "empty") = {}

\* the loop over the plan is over and all_sources is out
AfterAllSources == Positions("all_sources") # {}

\* ---------------------------------------------------------------- C1
\* C1: a stream that has not ended holds no terminal event; a stream that
\* has ended holds exactly one terminal event (complete or error), and it is
\* the last event of the stream.
C1_OneTerminalEventLast ==
    TerminalPositions = IF pc = "done" THEN {Len(events)} ELSE {}

\* a stream that ran through two sub-questions and ended with complete
C1_Witness ==
    /\ pc = "done"
    /\ Len(plan) >= 2
    /\ events[Len(events)].type = "complete"

\* ---------------------------------------------------------------- C2
\* C2: when planning returned N >= 1 sub-questions and neither planning nor
\* synthesis failed, the ended stream holds all_sources, then final, then
\* complete, and no error event, whichever sub-questions failed.
C2_PartialFailureCompletes ==
    (pc = "done" /\ PlanningSucceeded /\ Len(plan) >= 1 /\ NoFatalFailure)
      => /\ Positions("error") = {}
         /\ \E a \in Positions("all_sources") :
              \E f \in Positions("final") :
                \E c \in Positions("complete") : a < f /\ f < c

\* every one of at least two sub-questions failed and the stream completed
C2_Witness ==
    /\ pc = "done"
    /\ Len(plan) >= 2
    /\ \A i \in DOMAIN sub_results : sub_results[i].answer.kind = "Error"
    /\ CallsEnded("research", "raised") # {}
    /\ CallsEnded("get_sources", "raised") # {}
    /\ Positions("complete") # {}

\* ---------------------------------------------------------------- C3
\* C3 as stated: once all_sources is out, exactly N question, N sources and
\* N answer events precede it, the k-th of each kind carrying index k.
C3_ExactlyNOfEachKind ==
    AfterAllSources =>
      /\ \A p \in IndexedPositions : \A a \in Positions("all_sources") : p < a
      /\ \A t \in {"question", "sources", "answer"} :
           IndicesOf(t) = [k \in 1..Len(plan) |-> k]

\* C3 amended: once all_sources is out, exactly N question and N answer
\* events precede it, the k-th of each carrying index k; a sources event is
\* emitted for exactly the sub-questions whose source lookup returned, in
\* increasing index order, so there are at most N of them.
C3_QuestionsAnswersAndLookedUpSources ==
    AfterAllSources =>
      /\ \A p \in IndexedPositions : \A a \in Positions("all_sources") : p < a
      /\ IndicesOf("question") = [k \in 1..Len(plan) |-> k]
      /\ IndicesOf("answer") = [k \in 1..Len(plan) |-> k]
      /\ LET src == IndicesOf("sources")
         IN  /\ \A j, k \in DOMAIN src : j < k => src[j] < src[k]
             /\ Range(src) =
                  {i \in 1..Len(plan) :
                     \E c \in CallsOf("get_sources", i) : calls[c].result = "ok"}

\* all_sources is out after a lookup that raised and a lookup that returned
C3_Witness ==
    /\ AfterAllSources
    /\ CallsEnded("get_sources", "raised") # {}
    /\ CallsEnded("get_sources", "ok") # {}

\* ---------------------------------------------------------------- C4
\* C4 as stated: every sub-question that has been processed had its full
\* research call, whether its source lookup returned or raised.
C4_ResearchAlwaysInvoked ==
    \A i \in 1..Len(plan) : i < idx => CallsOf("research", i) # {}

\* C4 amended: the full research call of a processed sub-question is made
\* exactly when its source lookup returned; when the lookup raised, the
\* sub-question is finished with an error answer and no research call.
C4_ResearchIffLookupReturned ==
    \A i \in 1..Len(plan) :
      /\ \A c \in CallsOf("research", i) :
           \E g \in CallsOf("get_sources", i) : g < c /\ calls[g].result = "ok"
      /\ i < idx =>
           /\ Cardinality(CallsOf("get_sources", i)) = 1
           /\ (CallsOf("research", i) # {})
                <=> (\E g \in CallsOf("get_sources", i) : calls[g].result = "ok")
           /\ Cardinality(CallsOf("research", i)) <= 1

\* one processed sub-question whose lookup raised, one whose lookup returned
C4_Witness ==
    /\ pc = "done"
    /\ \E i, j \in 1..Len(plan) :
         /\ \E g \in CallsOf("get_sources", i) : calls[g].result = "raised"
         /\ CallsOf("research", i) = {}
         /\ CallsOf("research", j) # {}

\* ---------------------------------------------------------------- C5
\* the place of an event kind inside one sub-question's group
KindRank(t) == CASE t = "question" -> 1 [] t = "sources" -> 2 [] t = "answer" -> 3

\* C5: of any two indexed events, the earlier one belongs to an earlier
\* sub-question, or to the same sub-question and an earlier kind in the order
\* question, sources, answer: groups of different sub-questions never
\* interleave, and no kind repeats inside a group.
C5_GroupsInPlanOrder ==
    \A p, q \in IndexedPositions :
      p < q =>
        \/ events[p].index < events[q].index
        \/ /\ events[p].index = events[q].index
           /\ KindRank(events[p].type) < KindRank(events[q].type)

\* two sub-questions are through, the first with question, sources and answer
C5_Witness ==
    /\ pc = "done"
    /\ Len(plan) >= 2
    /\ \E p \in Positions("sources") : events[p].index = 1
    /\ \E p \in Positions("answer") : events[p].index = 2

\* ---------------------------------------------------------------- C6
\* the links of the sources events selected by a predicate on their index
SourcesEmitted(Sel(_)) ==
    UNION {Range(events[p].sources) :
             p \in {r \in Positions("sources") : Sel(events[r].index)}}

AnySubQuestion(i) == TRUE

ResearchSucceeded(i) ==
    \E c \in CallsOf("research", i) : calls[c].result = "ok"

\* C6 as stated: the links of all_sources are the union of the links of all
\* the sources events emitted before it.
C6_AllSourcesIsUnionOfSourcesEvents ==
    \A a \in Positions("all_sources") :
      Range(events[a].sources) = SourcesEmitted(AnySubQuestion)

\* C6 amended: the links of all_sources are the union of the links of the
\* sources events of the sub-questions whose research call then returned;
\* the links shown for a sub-question whose research raised are left out.
C6_AllSourcesIsUnionOfSucceeded ==
    \A a \in Positions("all_sources") :
      /\ Range(events[a].sources) = SourcesEmitted(ResearchSucceeded)
      /\ \A p \in Positions("sources") : p < a

\* all_sources is out, short of a link that a sources event had shown
C6_Witness ==
    /\ \E a \in Positions("all_sources") :
         /\ Range(events[a].sources) # {}
         /\ Range(events[a].sources) # SourcesEmitted(AnySubQuestion)
    /\ Cardinality(CallsEnded("research", "ok")) >= 1

\* ---------------------------------------------------------------- C7
\* C7 as stated: an ended stream holds exactly one plan event, ahead of
\* every question event.
C7_ExactlyOnePlanEvent ==
    pc = "done" =>
      /\ Cardinality(Positions("plan")) = 1
      /\ \A q \in Positions("question") : \A p \in Positions("plan") : p < q

\* C7 amended: the stream holds exactly one plan event when the planner
\* returned and none when it has not returned or raised; the plan event is
\* ahead of every question event, and no question is emitted without it.
C7_OnePlanEventIffPlanned ==
    /\ Cardinality(Positions("plan")) = IF PlanningSucceeded THEN 1 ELSE 0
    /\ \A q \in Positions("question") : \E p \in Positions("plan") : p < q

\* the stream ended with its plan event ahead of two question events
C7_Witness ==
    /\ pc = "done"
    /\ Cardinality(Positions("plan")) = 1
    /\ Cardinality(Positions("question")) >= 2

\* ---------------------------------------------------------------- C8
\* C8: once the planner call has raised, the stream has ended, its events
\* are exactly progress, error, and the planner call is the only
\* collaborator call made.
C8_PlannerFailureEndsStream ==
    CallsEnded("plan", "raised") # {} =>
      /\ pc = "done"
      /\ EventTypes = <<"progress", "error">>
      /\ Len(calls) = 1

\* the planner call raised
C8_Witness ==
    /\ Len(calls) >= 1
    /\ calls[1].op = "plan"
    /\ calls[1].result = "raised"
    /\ Len(events) = 2

\* ---------------------------------------------------------------- C9
\* n copies of question, sources, answer
Groups(n) ==
    [k \in 1..(3 * n) |->
       CASE k % 3 = 1 -> "question" [] k % 3 = 2 -> "sources" [] OTHER -> "answer"]

\* the event types of a run over n sub-questions in which every call succeeds
FullFlow(n) ==
    <<"progress", "plan">> \o Groups(n)
       \o <<"all_sources", "progress", "final", "complete">>

\* every collaborator call made has returned, and the synthesis was not empty
EveryCallSucceeded ==
    \A k \in DOMAIN calls : calls[k].result = "ok"

\* the stream has ended after the run of FullFlow over the planned N, with
\* N in the plan event and in the complete event
FullFlowOverPlan ==
    /\ EventTypes = FullFlow(Len(plan))
    /\ \A p \in Positions("plan") :
         events[p].total = Len(events[p].sub_questions)
    /\ \A p \in Positions("plan") : \A c \in Positions("complete") :
         events[c].total_sub_questions = events[p].total

\* C9 as stated: for every N the planner returns, a run in which every call
\* succeeds emits progress, plan, N groups, all_sources, progress, final,
\* complete.
C9_FullFlowForEveryN ==
    (pc = "done" /\ EveryCallSucceeded) => FullFlowOverPlan

\* C9 amended: the same for every N >= 1; a plan of no sub-questions ends
\* the stream with progress, plan, error.
C9_FullFlowForPositiveN ==
    (pc = "done" /\ EveryCallSucceeded) =>
      IF Len(plan) >= 1
        THEN FullFlowOverPlan
        ELSE EventTypes = <<"progress", "plan", "error">>

\* a run over two sub-questions in which every call succeeded
C9_Witness ==
    /\ pc = "done"
    /\ EveryCallSucceeded
    /\ Len(plan) = 2
    /\ Len(events) = 12

\* --------------------------------------------------------------- C10
\* C10: once the synthesis call has raised or returned empty content, the
\* stream has ended with a single error event, emitted after all_sources,
\* and holds neither a final nor a complete event.
C10_SynthesisFailureIsFatal ==
    (CallsEnded("synthesize", "raised") \cup CallsEnded("synthesize", "empty")) # {}
      => /\ pc = "done"
         /\ Positions("error") = {Len(events)}
         /\ \E a \in Positions("all_sources") : a < Len(events)
         /\ Positions("final") = {}
         /\ Positions("complete") = {}

\* the synthesis call came back with empty content
C10_Witness ==
    /\ CallsEnded("synthesize", "empty") # {}
    /\ pc = "done"

\* --------------------------------------------------------------- C11
\* the error event of the aggregation stage
NoResultsErrors ==
    {p \in Positions("error") :
       events[p].message = <<"No results to synthesize">>}

\* the loop over the plan is over
LoopOver ==
    /\ PlanningSucceeded
    /\ idx > Len(plan)
    /\ pc \in {"loop", "synth_progress", "synth_call", "synth_wait",
               "complete", "done"}

\* C11: once planning has returned and the loop is over, the aggregation
\* stage ends the stream with the error "No results to synthesize" exactly
\* when the plan has no sub-question; then no all_sources event is emitted
\* and the synthesizer is not called.  With N >= 1 the accumulator is not
\* empty when the loop is over, even if every sub-question failed.
C11_NoResultsIffEmptyPlan ==
    /\ NoResultsErrors # {} =>
         /\ PlanningSucceeded
         /\ Len(plan) = 0
         /\ pc = "done"
         /\ Positions("all_sources") = {}
         /\ CallsOf("synthesize", 0) = {}
    /\ (LoopOver /\ pc # "loop" /\ Len(plan) = 0) => NoResultsErrors # {}
    /\ (LoopOver /\ Len(plan) >= 1) => sub_results # <<>>

\* a plan without sub-questions ended the stream in the aggregation stage
C11_Witness ==
    /\ LoopOver
    /\ Len(plan) = 0
    /\ NoResultsErrors # {}

\* --------------------------------------------------------------- C12
\* the pipeline has not started: no event, no collaborator call
NothingStarted == events = <<>> /\ calls = <<>>

\* the request has been validated and the pipeline entered
Accepted == pc \notin {"request", "rejected"}

\* C12 as stated: a validated request is accepted exactly when its query has
\* 1 to 1000 characters after trimming.
C12_AcceptedIffTrimmedLengthInRange ==
    pc # "request" =>
      (Accepted <=> (request.query.body >= 1 /\ request.query.body <= 1000))

\* C12 amended: a validated request is accepted exactly when its query, as
\* sent, has at most 1000 characters and is not empty after trimming; the
\* pipeline then runs on the trimmed query.  A rejected request starts
\* nothing: no event, no collaborator call.
C12_AcceptedIffRawLengthInRange ==
    pc # "request" =>
      /\ Accepted <=>
           /\ request.query.lead + request.query.body + request.query.trail <= 1000
           /\ request.query.body >= 1
      /\ Accepted =>
           query = [lead |-> 0, body |-> request.query.body, trail |-> 0]
      /\ pc = "rejected" => NothingStarted

\* a query of one character behind one blank has reached the planner
\* without the blank
C12_Witness ==
    /\ Len(calls) >= 1
    /\ request.query = [lead |-> 1, body |-> 1, trail |-> 0]
    /\ calls[1].arg = [lead |-> 0, body |-> 1, trail |-> 0]

\* --------------------------------------------------------------- C19
\* C19: a request without valid credentials never starts the pipeline: no
\* event is emitted and no collaborator call is made for it.
C19_NoCredentialsNoPipeline ==
    request.credentials = "none" => (~Accepted /\ NothingStarted)

\* --------------------------------------------------------------- C13
\* C13 as stated: a plan that PlannerAgent.plan returns has at least one
\* sub-question.
C13_ReturnedPlanNonEmpty ==
    call_outcome.kind = "return" => Len(call_outcome.value.sub_questions) >= 1

\* C13 amended: a plan that PlannerAgent.plan returns carries the list of
\* the sub_questions field of the last LLM reply, whatever its length, the
\* empty list included; a reply without that field, or with a field that is
\* no list of strings, never yields a plan.
C13_ReturnedPlanIsRepliedList ==
    call_outcome.kind = "return" =>
      /\ pc = "plan_returned"
      /\ Len(tries) = attempt + 1
      /\ tries[Len(tries)].kind = "object"
      /\ tries[Len(tries)].sub_questions.tag = "list"
      /\ call_outcome.value.sub_questions = tries[Len(tries)].sub_questions.v
      /\ call_outcome.value.original_query = query

\* the third attempt returned a plan without sub-questions
C13_Witness ==
    /\ call_outcome.kind = "return"
    /\ call_outcome.value.sub_questions = <<>>
    /\ Len(tries) = 3

\* --------------------------------------------------------------- C14
\* the calls of one operation
CallsTo(op) == {k \in DOMAIN calls : calls[k].op = op}

\* C14 as stated: an ended run in which no call failed made one planner call
\* with the request's query, N source lookups, N research calls and one
\* synthesizer call, for every N.
C14_CallCountsForEveryN ==
    (pc = "done" /\ EveryCallSucceeded) =>
      /\ Cardinality(CallsTo("plan")) = 1
      /\ \A k \in CallsTo("plan") : calls[k].arg = request.query
      /\ Cardinality(CallsTo("get_sources")) = Len(plan)
      /\ Cardinality(CallsTo("research")) = Len(plan)
      /\ Cardinality(CallsTo("synthesize")) = 1

\* C14 amended: an ended run in which no call failed made one planner call,
\* the first call, with the request's query; for each of the N planned
\* sub-questions one source lookup and then one research call, both with
\* that sub-question; and one synthesizer call, the last call, when N >= 1.
\* With N = 0 the planner call is the only call and the synthesizer is not
\* invoked.
C14_CallCountsForPositiveN ==
    (pc = "done" /\ EveryCallSucceeded) =>
      /\ CallsTo("plan") = {1}
      /\ calls[1].arg = request.query
      /\ Cardinality(CallsTo("get_sources")) = Len(plan)
      /\ Cardinality(CallsTo("research")) = Len(plan)
      /\ \A i \in 1..Len(plan) :
           /\ CallsOf("get_sources", i) = {2 * i}
           /\ CallsOf("research", i) = {2 * i + 1}
           /\ calls[2 * i].arg = plan[i]
           /\ calls[2 * i + 1].arg = plan[i]
      /\ CallsTo("synthesize") =
           IF Len(plan) >= 1 THEN {2 * Len(plan) + 2} ELSE {}
      /\ Len(calls) = IF Len(plan) >= 1 THEN 2 * Len(plan) + 2 ELSE 1

\* a run over two sub-questions ended after six calls that all returned
C14_Witness ==
    /\ pc = "done"
    /\ EveryCallSucceeded
    /\ Len(plan) = 2
    /\ Len(calls) = 6
    /\ calls[6].op = "synthesize"

\* --------------------------------------------------------------- C15
\* how far the generator has come: the planning positions, then six
\* positions for each sub-question, then the positions after the loop
StagePosition ==
    CASE pc = "start" -> 0
      [] pc = "plan_call" -> 1
      [] pc = "plan_wait" -> 2
      [] pc = "loop" -> 10 * idx
      [] pc = "sources_call" -> 10 * idx + 1
      [] pc = "sources_wait" -> 10 * idx + 2
      [] pc = "research_call" -> 10 * idx + 3
      [] pc = "research_wait" -> 10 * idx + 4
      [] pc = "append" -> 10 * idx + 5
      [] pc = "synth_progress" -> 10 * (Len(plan) + 1) + 1
      [] pc = "synth_call" -> 10 * (Len(plan) + 1) + 2
      [] pc = "synth_wait" -> 10 * (Len(plan) + 1) + 3
      [] pc = "complete" -> 10 * (Len(plan) + 1) + 4
      [] pc = "done" -> 10 * (Len(plan) + 1) + 5
      [] OTHER -> 0

\* C15: when the generator is resumed whenever it can take a step and every
\* call returns or raises, every stream ends; every step takes the
\* generator to a later position, so it never goes back to an earlier stage
\* or sub-question; and at most N source lookups and N research calls are
\* made, at most one of each for a sub-question.
C15_EndsWithoutLoopingBack ==
    /\ <>(pc = "done")
    /\ [][StagePosition' > StagePosition]_vars
    /\ [](/\ Cardinality(CallsTo("get_sources")) <= Len(plan)
          /\ Cardinality(CallsTo("research")) <= Len(plan)
          /\ \A i \in 1..Len(plan) :
               /\ Cardinality(CallsOf("get_sources", i)) <= 1
               /\ Cardinality(CallsOf("research", i)) <= 1)

\* a stream over two sub-questions ended after two research calls
C15_Witness ==
    /\ pc = "done"
    /\ Len(plan) = 2
    /\ Cardinality(CallsTo("research")) = 2
    /\ TerminalPositions = {Len(events)}

TypesOf(f) == [p \in DOMAIN f.events |-> f.events[p].type]

OutcomesOf(f) == [k \in DOMAIN f.calls |-> f.calls[k].result]

RECURSIVE LoopTypes(_, _, _)
\* the event types from sub-question i on, when call k is the source lookup
\* of i (or the synthesis call, after the last sub-question), read off the
\* outcomes of the frame's own calls
LoopTypes(f, i, k) ==
    IF i > Len(f.plan)
      THEN IF Len(f.plan) = 0
             THEN <<"error">>
             ELSE <<"all_sources", "progress">>
                    \o (IF f.calls[k].result = "ok"
                          THEN <<"final", "complete">> ELSE <<"error">>)
      ELSE IF f.calls[k].result = "raised"
             THEN <<"question", "answer">> \o LoopTypes(f, i + 1, k + 1)
             ELSE <<"question", "sources", "answer">> \o LoopTypes(f, i + 1, k + 2)

\* the event types of an ended run alone, from its plan and call outcomes
ExpectedTypes(f) ==
    IF f.calls[1].result = "raised"
      THEN <<"progress", "error">>
      ELSE <<"progress", "plan">> \o LoopTypes(f, 1, 2)

\* everything in the frame comes from the frame's own query, plan and calls
OwnRun(f) ==
    /\ f.request.query = f.query
    /\ \A k \in DOMAIN f.calls :
         LET c == f.calls[k]
         IN  CASE c.op = "plan" -> c.arg = f.query
               [] c.op \in {"get_sources", "research"} ->
                    c.idx \in 1..Len(f.plan) /\ c.arg = f.plan[c.idx]
               [] OTHER ->
                    /\ c.arg.query = f.query
                    /\ c.arg.context = SynthesisContext(f.sub_results)
    /\ Len(f.sub_results) <= Len(f.plan)
    /\ \A i \in DOMAIN f.sub_results :
         /\ f.sub_results[i].question = f.plan[i]
         /\ \E p \in DOMAIN f.events :
              /\ f.events[p].type = "answer"
              /\ f.events[p].index = i
              /\ f.events[p].answer = f.sub_results[i].answer
         /\ f.sub_results[i].sources # <<>> =>
              \E p \in DOMAIN f.events :
                /\ f.events[p].type = "sources"
                /\ f.events[p].index = i
                /\ f.events[p].sources = f.sub_results[i].sources
    /\ Range(f.all_links) =
         UNION {Range(f.sub_results[i].sources) : i \in DOMAIN f.sub_results}
    /\ \A p \in DOMAIN f.events :
         /\ f.events[p].type = "question" =>
              f.events[p].question = f.plan[f.events[p].index]
         /\ f.events[p].type = "all_sources" =>
              Range(f.events[p].sources) = Range(f.all_links)
    /\ f.pc = "done" => TypesOf(f) = ExpectedTypes(f)

\* C17: however the generators of two requests interleave at their
\* suspension points, the accumulator, the links and the events of each
\* come from its own query, plan and calls, and the event types of an ended
\* request are those of the same run alone.
C17_RequestsIndependent == OwnRun(CurrentFrame) /\ OwnRun(other)

\* two requests with different queries and plans, both in the middle of
\* their loops with a result accumulated
C17_Witness ==
    /\ query # other.query
    /\ plan # other.plan
    /\ pc \notin {"start", "done"}
    /\ other.pc \notin {"start", "done"}
    /\ Len(sub_results) >= 1
    /\ Len(other.sub_results) >= 1
    /\ Len(plan) = 2
    /\ idx = 2

\* --------------------------------------------------------------- C18
\* C18: two ended runs with the same query, the same plan and the same
\* sequence of call outcomes have emitted the same sequence of event types.
C18_SameOutcomesSameTypes ==
    (/\ pc = "done"
     /\ other.pc = "done"
     /\ query = other.query
     /\ plan = other.plan
     /\ OutcomesOf(CurrentFrame) = OutcomesOf(other))
      => TypesOf(CurrentFrame) = TypesOf(other)

\* two ended runs of one query over the same two sub-questions with the
\* same outcomes, one of them a failure, whose events differ in content
C18_Witness ==
    /\ pc = "done"
    /\ other.pc = "done"
    /\ query = other.query
    /\ plan = other.plan
    /\ Len(plan) = 2
    /\ OutcomesOf(CurrentFrame) = OutcomesOf(other)
    /\ \E k \in DOMAIN calls : calls[k].result = "raised"
    /\ events # other.events
    /\ Positions("complete") # {}

\* --------------------------------------------------------------- C20
\* the event that was the last one emitted when call k was dispatched
EventBefore(k) == events[calls[k].at]

\* C20: when a call is dispatched, the event of the step before it is out:
\* the first progress for the planner, question(i) for the source lookup of
\* i, sources(i) for the research call of i, and all_sources followed by
\* the second progress for the synthesizer; the answer of i is out before
\* any call for i+1; at least one event lies between any two calls; and a
\* step emits one event or dispatches one call, never both and never two.
C20_EventOutBeforeNextCall ==
    /\ [](\A k \in DOMAIN calls :
            /\ calls[k].at >= 1
            /\ CASE calls[k].op = "plan" ->
                      calls[k].at = 1 /\ EventBefore(k).type = "progress"
                 [] calls[k].op = "get_sources" ->
                      /\ EventBefore(k).type = "question"
                      /\ EventBefore(k).index = calls[k].idx
                 [] calls[k].op = "research" ->
                      /\ EventBefore(k).type = "sources"
                      /\ EventBefore(k).index = calls[k].idx
                 [] OTHER ->
                      /\ EventBefore(k).type = "progress"
                      /\ calls[k].at >= 2
                      /\ events[calls[k].at - 1].type = "all_sources"
            /\ calls[k].idx >= 2 =>
                 \E p \in 1..calls[k].at :
                   /\ events[p].type = "answer"
                   /\ events[p].index = calls[k].idx - 1
            /\ k > 1 => calls[k - 1].at < calls[k].at)
    /\ [][/\ Len(events') <= Len(events) + 1
          /\ Len(calls') <= Len(calls) + 1
          /\ Len(calls') > Len(calls) => events' = events]_vars

\* the research call of the second sub-question is in flight, dispatched
\* right after sources(2)
C20_Witness ==
    /\ pc = "research_wait"
    /\ idx = 2
    /\ calls[Len(calls)].at = Len(events)
    /\ events[Len(events)].type = "sources"
    /\ events[Len(events)].index = 2

\* --------------------------------------------------------------- C21
\* the sub-questions whose iteration of the loop is over
Processed ==
    IF pc \in {"start", "plan_call", "plan_wait"} \/ ~PlanningSucceeded
      THEN 0 ELSE idx - 1

\* C21: once planning has returned, the accumulator holds one result for
\* each of the k sub-questions processed so far, the i-th for the i-th
\* planned sub-question, an error result when the lookup or the research of
\* i raised and a success result otherwise; when the loop is over, k = N.
C21_OneResultPerProcessedSubQuestion ==
    PlanningSucceeded =>
      /\ Len(sub_results) = Processed
      /\ Processed <= Len(plan)
      /\ LoopOver => Len(sub_results) = Len(plan)
      /\ \A i \in DOMAIN sub_results :
           /\ sub_results[i].question = plan[i]
           /\ (sub_results[i].answer.kind = "Error")
                <=> \E k \in DOMAIN calls :
                      calls[k].idx = i /\ calls[k].result = "raised"

\* the loop over two sub-questions is over, the first failed and the
\* second succeeded
C21_Witness ==
    /\ LoopOver
    /\ Len(plan) = 2
    /\ Len(sub_results) = 2
    /\ sub_results[1].answer.kind = "Error"
    /\ sub_results[2].answer.kind = "text"
    /\ plan[1] # plan[2]

\* --------------------------------------------------------------- C22
\* C22: the synthesis call is made at most once; when it is dispatched the
\* loop is over, the answer of every planned sub-question and all_sources
\* are out, and it is given the query and, for each of the N sub-questions
\* in plan order, the question and the answer of its accumulator entry,
\* error answers included.
C22_SynthesizerOnceOverWholeAccumulator ==
    /\ Cardinality(CallsTo("synthesize")) <= 1
    /\ \A k \in CallsTo("synthesize") :
         /\ idx > Len(plan)
         /\ Len(plan) >= 1
         /\ \E a \in Positions("all_sources") : a <= calls[k].at
         /\ \A i \in 1..Len(plan) :
              \E p \in Positions("answer") :
                events[p].index = i /\ p <= calls[k].at
         /\ calls[k].arg.query = query
         /\ calls[k].arg.context =
              [i \in 1..Len(plan) |-> [q |-> plan[i], a |-> sub_results[i].answer]]

\* the synthesizer was given the error answer of the first sub-question
\* and the text answer of the second
C22_Witness ==
    /\ \E k \in CallsTo("synthesize") :
         /\ Len(calls[k].arg.context) = 2
         /\ calls[k].arg.context[1].a.kind = "Error"
         /\ calls[k].arg.context[2].a.kind = "text"
    /\ pc = "synth_wait"

\* --------------------------------------------------------------- C23
RECURSIVE SourcesOfResults(_)
\* the sources lists of the accumulator entries, one after the other
SourcesOfResults(rs) ==
    IF rs = <<>> THEN <<>>
    ELSE SourcesOfResults(SubSeq(rs, 1, Len(rs) - 1)) \o rs[Len(rs)].sources

\* the call in flight, a source lookup or a research call, raises in this step
SubQuestionFails ==
    /\ calls # <<>>
    /\ calls[Len(calls)].op \in {"get_sources", "research"}
    /\ calls[Len(calls)].result = "pending"
    /\ Len(calls') = Len(calls)
    /\ calls'[Len(calls)].result = "raised"

\* C23: the step that handles the failure of sub-question i appends one
\* result with empty sources and leaves all_links as it was, also when
\* sources(i) had been emitted with links; no step changes an entry the
\* accumulator already holds; so all_links is always the sources of the
\* accumulator entries in order, and error entries add nothing to it.
C23_FailureAddsNoLinks ==
    /\ [][SubQuestionFails =>
            /\ Len(sub_results') = Len(sub_results) + 1
            /\ sub_results'[Len(sub_results')].sources = <<>>
            /\ sub_results'[Len(sub_results')].answer.kind = "Error"
            /\ all_links' = all_links]_vars
    /\ [][\A i \in DOMAIN sub_results :
            i \in DOMAIN sub_results' /\ sub_results'[i] = sub_results[i]]_vars
    /\ [](/\ all_links = SourcesOfResults(sub_results)
          /\ \A i \in DOMAIN sub_results :
               sub_results[i].answer.kind = "Error" =>
                 sub_results[i].sources = <<>>)

\* the second sub-question failed after sources(2) had shown a link; the
\* aggregate holds the link of the first sub-question only
C23_Witness ==
    /\ Len(sub_results) = 2
    /\ sub_results[1].sources # <<>>
    /\ sub_results[2].answer.kind = "Error"
    /\ \E p \in Positions("sources") :
         events[p].index = 2 /\ events[p].sources # <<>>
    /\ all_links = sub_results[1].sources

\* --------------------------------------------------------------- C24
\* C24: the sources of an all_sources event hold no URL twice, its total is
\* the length of that list, and the list holds exactly the URLs collected.
C24_AllSourcesDeduplicated ==
    \A a \in Positions("all_sources") :
      LET srcs == events[a].sources
      IN  /\ \A j, k \in DOMAIN srcs : j # k => srcs[j] # srcs[k]
          /\ events[a].total = Len(srcs)
          /\ Range(srcs) = Range(all_links)

\* all_sources is out after two sub-questions returned the same link
C24_Witness ==
    /\ AfterAllSources
    /\ Len(all_links) = 2
    /\ all_links[1] = all_links[2]
    /\ \E a \in Positions("all_sources") : events[a].total = 1

\* --------------------------------------------------------------- C27
\* the answer events of sub-question i
AnswerEventsOf(i) == {p \in Positions("answer") : events[p].index = i}

\* C27: every accumulator entry i has exactly one answer event with index
\* i, and that event carries the answer stored in the entry, for a text
\* answer and for an error answer; the findings given to the synthesizer
\* carry the same answer at place i.
C27_StoredAnswerIsEmittedAnswer ==
    /\ \A i \in DOMAIN sub_results :
         /\ Cardinality(AnswerEventsOf(i)) = 1
         /\ \A p \in AnswerEventsOf(i) : events[p].answer = sub_results[i].answer
    /\ \A k \in CallsTo("synthesize") :
         \A i \in DOMAIN calls[k].arg.context :
           \A p \in AnswerEventsOf(i) :
             events[p].answer = calls[k].arg.context[i].a

\* the synthesizer has been called over a text answer and an error answer,
\* both as emitted
C27_Witness ==
    /\ CallsTo("synthesize") # {}
    /\ Len(sub_results) = 2
    /\ sub_results[1].answer.kind = "text"
    /\ sub_results[2].answer.kind = "Error"
    /\ \A i \in 1..2 : AnswerEventsOf(i) # {}

\* --------------------------------------------------------------- C25
\* C25: with max_retries = n >= 1 the wrapped function is invoked at most n
\* times; every invocation but the last one made has raised; a wrapper that
\* returned gives the value of its last invocation, a wrapper that raised
\* has made n invocations and raises the exception of the n-th; and a
\* wrapper that has ended takes no further step.
C25_AtMostNAttempts ==
    /\ [](deco.max_retries >= 1 =>
            /\ Len(tries) <= deco.max_retries
            /\ \A k \in 1..(Len(tries) - 1) : tries[k].kind = "raise"
            /\ pc = "retry_returned" =>
                 /\ tries[Len(tries)].kind = "return"
                 /\ call_outcome = tries[Len(tries)]
            /\ pc = "retry_raised" =>
                 /\ Len(tries) = deco.max_retries
                 /\ tries[Len(tries)].kind = "raise"
                 /\ call_outcome = tries[deco.max_retries])
    /\ [][~RetryEnded]_vars

\* three attempts raised, the first and the third different exceptions
C25_Witness ==
    /\ pc = "retry_raised"
    /\ deco.max_retries = 3
    /\ Len(tries) = 3
    /\ tries[1].exc # tries[3].exc

\* --------------------------------------------------------------- C26
RECURSIVE Power(_, _)
Power(b, e) == IF e = 0 THEN 1 ELSE b * Power(b, e - 1)

\* C26: the k-th wait lasts initial_delay * backoff_factor^(k-1), each wait
\* the one before times backoff_factor; there is one wait between two
\* consecutive attempts, and none after the attempt that ended the wrapper.
C26_WaitsGrowGeometrically ==
    /\ \A k \in DOMAIN slept :
         /\ slept[k] = deco.initial_delay * Power(deco.backoff_factor, k - 1)
         /\ k > 1 => slept[k] = slept[k - 1] * deco.backoff_factor
    /\ pc = "retry_attempt" => Len(slept) = Len(tries)
    /\ pc = "retry_sleep" => Len(slept) = Len(tries) - 1
    /\ pc \in {"retry_returned", "retry_raised"} => Len(slept) = Len(tries) - 1
    /\ pc = "retry_fell_through" => slept = <<>>

\* the third attempt is about to be made after waits of 3 and 9
C26_Witness ==
    /\ pc = "retry_attempt"
    /\ Len(tries) = 2
    /\ slept = <<3, 9>>

\* --------------------------------------------------------------- C29
\* C29: with max_retries = 0 the wrapper ends by running off its loop: no
\* invocation, no wait, None returned, nothing raised.  With max_retries >=
\* 1 it never runs off the loop: it ends with the value or the exception of
\* its last invocation.
C29_NoneOnlyForZeroRetries ==
    /\ (deco.max_retries = 0 /\ RetryEnded) =>
         /\ pc = "retry_fell_through"
         /\ tries = <<>>
         /\ slept = <<>>
         /\ call_outcome = Return("None")
    /\ deco.max_retries >= 1 =>
         /\ pc # "retry_fell_through"
         /\ RetryEnded => (tries # <<>> /\ call_outcome = tries[Len(tries)])

\* the wrapper with max_retries = 0 has returned None
C29_Witness ==
    /\ pc = "retry_fell_through"
    /\ deco.max_retries = 0
    /\ call_outcome.value = "None"

\* --------------------------------------------------------------- C28
\* C28: one call of SearcherAgent.research invokes the search API at most
\* 2 * 3 = 6 times and the LLM at most twice; when it raises, it has made
\* both of its attempts, and in each the search or the synthesis failed.
C28_AtMostSixSearches ==
    /\ inner.api_calls <= SearcherMaxRetries * SearchMaxRetries
    /\ inner.api_calls <= 6
    /\ inner.llm_calls <= SearcherMaxRetries
    /\ Len(tries) <= SearcherMaxRetries
    /\ call_outcome.kind = "raise" =>
         /\ pc = "research_raised"
         /\ Len(tries) = SearcherMaxRetries
         /\ \A k \in DOMAIN tries : tries[k].failed \in {"search", "synthesis"}

\* research raised after six invocations of the search API
C28_Witness ==
    /\ pc = "research_raised"
    /\ inner.api_calls = 6
    /\ tries = <<[failed |-> "search"], [failed |-> "search"]>>

====
